---- MODULE Spec2Model ----
(***************************************************************************)
(* Model of lab_orchestrator_lib_auth/auth.py: generate_auth_token,        *)
(* decode_auth_token and verify_auth_token on top of PyJWT's HS256 codec.  *)
(*                                                                         *)
(* Modelling decisions:                                                    *)
(*  - the wall clock counts whole seconds (what PyJWT does with the        *)
(*    fraction of a second of time.time() is not modelled);                *)
(*  - HS256 is an ideal MAC: a tag is determined by, and determines, the   *)
(*    key and the signed header and payload;                               *)
(*  - a Python or JSON value is a record [type, n, s, items] so that       *)
(*    values of different types can be compared; a key that a dict does    *)
(*    not hold is the value Missing;                                       *)
(*  - PyJWT releases differ on a token whose exp equals the current        *)
(*    second (exp < now in the older ones, exp <= now in the newer ones):  *)
(*    the installed release is fixed at start-up (libExpInclusive).        *)
(*                                                                         *)
(* Spec: one client holds a token; each call is one step.  SpecC: two      *)
(* callers run the three functions line by line, interleaved.              *)
(***************************************************************************)
EXTENDS Integers, Sequences, FiniteSets, TLC

VARIABLES
    now,              \* time.time(), in whole seconds
    libExpInclusive,  \* the installed PyJWT rejects exp = now
    tok,              \* the token string in the client's hands
    minted,           \* history: the generate_auth_token call that signed tok
    res,              \* the call just made on tok at the time now, and its outcome
    expired,          \* history: keys under which tok already failed as expired
    obj,              \* the LabInstanceTokenParams object concurrent callers share
    th,               \* concurrent callers: the call each is in, line by line
    locals            \* concurrent callers: the local variables of each call

vars == <<now, libExpInclusive, tok, minted, res, expired, obj, th, locals>>

\* the state of the concurrent callers
cvars == <<obj, th, locals>>

\* the state of the single client and its token
svars == <<tok, minted, res, expired>>

\* ------------------------------------------------------------------ bounds

MaxTime == 3

\* the last second of the clock under concurrent callers
MaxTimeC == 2

\* --------------------------------------------------------- program constants

expires_in_default == 600

\* ------------------------------------------------------------ Python values

Missing == [type |-> "missing", n |-> 0, s |-> "", items |-> <<>>]
None_ == [type |-> "NoneType", n |-> 0, s |-> "", items |-> <<>>]
PyInt(i) == [type |-> "int", n |-> i, s |-> "", items |-> <<>>]
PyStr(x) == [type |-> "str", n |-> 0, s |-> x, items |-> <<>>]
PyList(xs) == [type |-> "list", n |-> 0, s |-> "", items |-> xs]

\* ------------------------------------------------------------- JSON values

JNull == [type |-> "null", n |-> 0, s |-> "", items |-> <<>>]
JNumber(i) == [type |-> "number", n |-> i, s |-> "", items |-> <<>>]
JString(x) == [type |-> "string", n |-> 0, s |-> x, items |-> <<>>]
JArray(xs) == [type |-> "array", n |-> 0, s |-> "", items |-> xs]

\* json.dumps of one value, as jwt.encode applies it to the payload
json_dumps(v) ==
    CASE v.type = "NoneType" -> JNull
      [] v.type = "int" -> JNumber(v.n)
      [] v.type = "str" -> JString(v.s)
      [] v.type = "list" -> JArray(v.items)
      [] OTHER -> Missing

\* json.loads of one value, as jwt.decode applies it to the payload
json_loads(j) ==
    CASE j.type = "null" -> None_
      [] j.type = "number" -> PyInt(j.n)
      [] j.type = "string" -> PyStr(j.s)
      [] j.type = "array" -> PyList(j.items)
      [] OTHER -> Missing

\* bool(v), as `not expires_at` evaluates it
Truthy(v) ==
    CASE v.type = "NoneType" -> FALSE
      [] v.type = "int" -> v.n # 0
      [] v.type = "str" -> v.s # ""
      [] v.type = "list" -> v.items # <<>>
      [] OTHER -> FALSE

\* ---------------------------------------------------- LabInstanceTokenParams

LabInstanceTokenParams(lab_id, lab_instance_id, namespace_name, allowed_vmi_names) ==
    [lab_id |-> lab_id, lab_instance_id |-> lab_instance_id,
     namespace_name |-> namespace_name, allowed_vmi_names |-> allowed_vmi_names]

NoParams == LabInstanceTokenParams(Missing, Missing, Missing, Missing)

\* ------------------------------------------------------------------ tokens

\* the 'lab_instance' object of a payload; kind is "object", "null" or "missing"
LabInstanceDict(kind, p) ==
    [kind |-> kind, lab_id |-> p.lab_id, lab_instance_id |-> p.lab_instance_id,
     namespace_name |-> p.namespace_name, allowed_vmi_names |-> p.allowed_vmi_names]

EmptyPayload ==
    [id |-> Missing, exp |-> Missing, lab_instance |-> LabInstanceDict("missing", NoParams)]

\* HMAC-SHA256 over header and payload under key
HS256(key, alg, payload) ==
    [signed |-> TRUE, key |-> key, alg |-> alg, payload |-> payload]

NoSignature == [signed |-> FALSE, key |-> "", alg |-> "", payload |-> EmptyPayload]

\* a string that is not three dot-separated segments, such as "not-a-token"
NotAToken == [wf |-> FALSE, alg |-> "", payload |-> EmptyPayload, sig |-> NoSignature]

\* jwt.encode(payload, secret_key, algorithm='HS256')
jwt_encode(payload, secret_key) ==
    [wf |-> TRUE, alg |-> "HS256", payload |-> payload,
     sig |-> HS256(secret_key, "HS256", payload)]

\* ---------------------------------------------------------------- outcomes

Return(value, authorized) ==
    [ok |-> TRUE, err |-> "", value |-> value, authorized |-> authorized]

Raise(err) == [ok |-> FALSE, err |-> err, value |-> NoParams, authorized |-> FALSE]

\* ------------------------------------------------------- generate_auth_token

\* lines 41-42: the local expires_at after `if not expires_at`
generate_expires_at(expires_in, expires_at, clock) ==
    IF ~Truthy(expires_at) THEN PyInt(clock + expires_in) ELSE expires_at

\* lines 44-52: the payload is built from the object's fields and signed
generate_sign(user_id, lab_instance_token_params, secret_key, expires_at) ==
    jwt_encode(
        [id |-> json_dumps(user_id),
         exp |-> json_dumps(expires_at),
         lab_instance |->
            LabInstanceDict("object",
                LabInstanceTokenParams(
                    json_dumps(lab_instance_token_params.lab_id),
                    json_dumps(lab_instance_token_params.lab_instance_id),
                    json_dumps(lab_instance_token_params.namespace_name),
                    json_dumps(lab_instance_token_params.allowed_vmi_names)))],
        secret_key)

generate_auth_token(user_id, lab_instance_token_params, secret_key, expires_in, expires_at, clock) ==
    generate_sign(user_id, lab_instance_token_params, secret_key,
                  generate_expires_at(expires_in, expires_at, clock))

\* --------------------------------------------------------- decode_auth_token

\* PyJWT's _validate_exp on a payload that holds exp
ExpHasPassed(exp, clock, inclusive) ==
    IF inclusive THEN exp <= clock ELSE exp < clock

\* mutant: options={"verify_exp": False}
jwt_decode_no_exp(token, secret_key, clock, inclusive) ==
    IF ~token.wf THEN [ok |-> FALSE, err |-> "DecodeError", data |-> EmptyPayload]
    ELSE IF token.alg # "HS256"
    THEN [ok |-> FALSE, err |-> "InvalidAlgorithmError", data |-> EmptyPayload]
    ELSE IF token.sig # HS256(secret_key, token.alg, token.payload)
    THEN [ok |-> FALSE, err |-> "InvalidSignatureError", data |-> EmptyPayload]
    ELSE [ok |-> TRUE, err |-> "", data |-> token.payload]

\* mutant: the expiry is validated before the signature
jwt_decode_exp_first(token, secret_key, clock, inclusive) ==
    IF ~token.wf THEN [ok |-> FALSE, err |-> "DecodeError", data |-> EmptyPayload]
    ELSE IF token.alg # "HS256"
    THEN [ok |-> FALSE, err |-> "InvalidAlgorithmError", data |-> EmptyPayload]
    ELSE IF token.payload.exp.type = "number"
            /\ ExpHasPassed(token.payload.exp.n, clock, inclusive)
    THEN [ok |-> FALSE, err |-> "ExpiredSignatureError", data |-> EmptyPayload]
    ELSE IF token.sig # HS256(secret_key, token.alg, token.payload)
    THEN [ok |-> FALSE, err |-> "InvalidSignatureError", data |-> EmptyPayload]
    ELSE [ok |-> TRUE, err |-> "", data |-> token.payload]

\* mutant: options={"verify_signature": False}, which also skips the claims
jwt_decode_unverified(token, secret_key, clock, inclusive) ==
    IF ~token.wf THEN [ok |-> FALSE, err |-> "DecodeError", data |-> EmptyPayload]
    ELSE [ok |-> TRUE, err |-> "", data |-> token.payload]

\* jwt.decode(token, secret_key, algorithms=['HS256']): segments, algorithm,
\* signature, then the registered claims
jwt_decode(token, secret_key, clock, inclusive) ==
    IF ~token.wf THEN [ok |-> FALSE, err |-> "DecodeError", data |-> EmptyPayload]
    ELSE IF token.alg # "HS256"
    THEN [ok |-> FALSE, err |-> "InvalidAlgorithmError", data |-> EmptyPayload]
    ELSE IF token.sig # HS256(secret_key, token.alg, token.payload)
    THEN [ok |-> FALSE, err |-> "InvalidSignatureError", data |-> EmptyPayload]
    ELSE IF token.payload.exp.type = "number"
            /\ ExpHasPassed(token.payload.exp.n, clock, inclusive)
    THEN [ok |-> FALSE, err |-> "ExpiredSignatureError", data |-> EmptyPayload]
    ELSE [ok |-> TRUE, err |-> "", data |-> token.payload]

\* mutant: lab_id is read from 'lab_instance_id'
decode_auth_token_swapped_ids(token, secret_key, clock, inclusive) ==
    LET r == jwt_decode(token, secret_key, clock, inclusive)
        li == r.data.lab_instance
    IN  IF ~r.ok THEN Raise(r.err)
        ELSE IF li.kind = "missing" THEN Raise("KeyError")
        ELSE IF li.kind # "object" THEN Raise("TypeError")
        ELSE IF \/ li.lab_instance_id = Missing
                \/ li.namespace_name = Missing
                \/ li.allowed_vmi_names = Missing
        THEN Raise("KeyError")
        ELSE Return(LabInstanceTokenParams(json_loads(li.lab_instance_id),
                                           json_loads(li.lab_instance_id),
                                           json_loads(li.namespace_name),
                                           json_loads(li.allowed_vmi_names)),
                    FALSE)

\* lines 63-68: the LabInstanceTokenParams built from the decoded dict
decode_build(data) ==
    LET li == data.lab_instance
    IN  IF li.kind = "missing" THEN Raise("KeyError")
        ELSE IF li.kind # "object" THEN Raise("TypeError")
        ELSE IF \/ li.lab_id = Missing
                \/ li.lab_instance_id = Missing
                \/ li.namespace_name = Missing
                \/ li.allowed_vmi_names = Missing
        THEN Raise("KeyError")
        ELSE Return(LabInstanceTokenParams(json_loads(li.lab_id),
                                           json_loads(li.lab_instance_id),
                                           json_loads(li.namespace_name),
                                           json_loads(li.allowed_vmi_names)),
                    FALSE)

decode_auth_token(token, secret_key, clock, inclusive) ==
    LET r == jwt_decode(token, secret_key, clock, inclusive)
    IN  IF ~r.ok THEN Raise(r.err) ELSE decode_build(r.data)

\* --------------------------------------------------------- verify_auth_token

\* vmi_name in allowed_vmi_names, for a list
Contains(xs, x) == \E i \in DOMAIN xs : xs[i] = x

\* mutant: a name that is not allowed raises instead of returning False
verify_auth_token_forbidden_raises(token, vmi_name, secret_key, clock, inclusive) ==
    LET data == decode_auth_token(token, secret_key, clock, inclusive)
    IN  IF ~data.ok THEN data
        ELSE IF data.value.allowed_vmi_names.type # "list" THEN Raise("TypeError")
        ELSE IF ~Contains(data.value.allowed_vmi_names.items, vmi_name)
        THEN Raise("PermissionError")
        ELSE Return(data.value, TRUE)

\* lines 86-88: the membership test on the decoded data and the pair returned
verify_check(data, vmi_name) ==
    IF data.allowed_vmi_names.type # "list" THEN Raise("TypeError")
    ELSE LET is_forbidden == ~Contains(data.allowed_vmi_names.items, vmi_name)
         IN  Return(data, ~is_forbidden)

verify_auth_token(token, vmi_name, secret_key, clock, inclusive) ==
    LET data == decode_auth_token(token, secret_key, clock, inclusive)
    IN  IF ~data.ok THEN data ELSE verify_check(data.value, vmi_name)

\* ------------------------------------------------------------------ inputs

Keys == {"k1", "k2"}

\* the key third parties hold; "k1" is shared by issuer and verifier only
OtherKey == "k2"

UserIds == {PyStr("u1"), None_}

BaseParams ==
    LabInstanceTokenParams(PyInt(42), PyInt(7), PyStr("ns-a"), PyList(<<"vm-1", "vm-2">>))

ParamsInputs ==
    {BaseParams,
     [BaseParams EXCEPT !.lab_id = PyStr("42")],
     [BaseParams EXCEPT !.lab_id = None_],
     [BaseParams EXCEPT !.lab_instance_id = None_],
     [BaseParams EXCEPT !.namespace_name = None_],
     [BaseParams EXCEPT !.allowed_vmi_names = PyList(<<>>)],
     [BaseParams EXCEPT !.allowed_vmi_names = PyList(<<"vm-2", "vm-1", "vm-2">>)],
     [BaseParams EXCEPT !.allowed_vmi_names = None_]}

ExpiresInInputs == {expires_in_default, 1}

ExpiresAtInputs == {None_, PyInt(0), PyInt(2), PyInt(3600)}

VmiNames == {"vm-1", "VM-1", "vm-3"}

\* ------------------------------------------------------------------- state

\* a call record: the operation, its arguments and its outcome
Call(op, key, name, expires_in, expires_at, out) ==
    [op |-> op, key |-> key, name |-> name, expires_in |-> expires_in,
     expires_at |-> expires_at, out |-> out]

NoCall == Call("none", "", "", 0, Missing, Raise(""))

NotMinted ==
    [by |-> "nobody", user_id |-> Missing, params |-> NoParams, key |-> ""]

Callers == {1, 2}

\* a caller's call: the line it is at, its arguments, what it returned, and as
\* history the time its call read the clock
Frame(pc, op, token, key, name, expires_in, expires_at, out, ret, tRead) ==
    [pc |-> pc, op |-> op, token |-> token, key |-> key, name |-> name,
     expires_in |-> expires_in, expires_at |-> expires_at, out |-> out, ret |-> ret,
     tRead |-> tRead]

Idle == Frame("idle", "none", NotAToken, "", "", 0, Missing, Raise(""), NotAToken, 0)

\* the local variables of a call: expires_at (generate_auth_token), the dict
\* jwt.decode returned (decode_auth_token), data (verify_auth_token)
NoLocals == [expires_at |-> Missing, dict |-> EmptyPayload, data |-> NoParams]

Init ==
    /\ now = 0
    /\ libExpInclusive \in BOOLEAN
    /\ tok = NotAToken
    /\ minted = NotMinted
    /\ res = NoCall
    /\ expired = {}
    /\ obj = BaseParams
    /\ th = [c \in Callers |-> Idle]
    /\ locals = [c \in Callers |-> NoLocals]

\* the clock advances
Tick ==
    /\ now < MaxTime
    /\ now' = now + 1
    /\ res' = NoCall
    /\ UNCHANGED <<libExpInclusive, tok, minted, expired, cvars>>

\* the issuer calls generate_auth_token and hands the token to a client that
\* holds none (a client discards its token first: Garbage; the token issued
\* does not depend on the one discarded)
Encode ==
    \E user_id \in UserIds, p \in ParamsInputs, key \in Keys,
       expires_in \in ExpiresInInputs, expires_at \in ExpiresAtInputs :
        /\ tok = NotAToken
        /\ tok' = generate_auth_token(user_id, p, key, expires_in, expires_at, now)
        /\ minted' = [by |-> "generate_auth_token", user_id |-> user_id, params |-> p,
                      key |-> key]
        /\ res' = Call("encode", key, "", expires_in, expires_at, Return(NoParams, FALSE))
        /\ expired' = {}
        /\ UNCHANGED <<now, libExpInclusive, cvars>>

\* a verifier calls decode_auth_token on the presented token
Decode ==
    \E key \in Keys :
        LET out == decode_auth_token(tok, key, now, libExpInclusive)
        IN  /\ res' = Call("decode", key, "", 0, Missing, out)
            /\ expired' = IF out.err = "ExpiredSignatureError"
                          THEN expired \cup {key} ELSE expired
            /\ UNCHANGED <<now, libExpInclusive, tok, minted, cvars>>

\* a verifier calls verify_auth_token on the presented token
Verify ==
    \E key \in Keys, vmi_name \in VmiNames :
        LET out == verify_auth_token(tok, vmi_name, key, now, libExpInclusive)
        IN  /\ res' = Call("verify", key, vmi_name, 0, Missing, out)
            /\ expired' = IF out.err = "ExpiredSignatureError"
                          THEN expired \cup {key} ELSE expired
            /\ UNCHANGED <<now, libExpInclusive, tok, minted, cvars>>

\* what a holder of a token may put in place of its payload, keeping the signature
TamperedPayloads(p) ==
    {[p EXCEPT !.exp = JNumber(3600)],
     [p EXCEPT !.lab_instance.allowed_vmi_names = JArray(<<"vm-3">>)]} \ {p}

\* the client alters the payload of an issued token without re-signing it
Tamper ==
    /\ tok.wf
    /\ tok.sig.signed
    /\ tok.payload = tok.sig.payload
    /\ \E p \in TamperedPayloads(tok.payload) : tok' = [tok EXCEPT !.payload = p]
    /\ res' = NoCall
    /\ expired' = {}
    /\ UNCHANGED <<now, libExpInclusive, minted, cvars>>

ForeignLabInstance == LabInstanceDict("object",
    LabInstanceTokenParams(JNumber(42), JNumber(7), JString("ns-a"), JArray(<<"vm-3">>)))

\* payloads a third party signs: complete ones and ones that lack a claim
ForeignPayloads ==
    {[id |-> JString("u1"), exp |-> e, lab_instance |-> li] :
        e \in {JNumber(2), Missing},
        li \in {ForeignLabInstance,
                LabInstanceDict("missing", NoParams),
                LabInstanceDict("null", NoParams),
                [ForeignLabInstance EXCEPT !.lab_id = Missing],
                [ForeignLabInstance EXCEPT !.lab_instance_id = Missing],
                [ForeignLabInstance EXCEPT !.namespace_name = Missing],
                [ForeignLabInstance EXCEPT !.allowed_vmi_names = Missing]}}

\* a third party presents a token it signed with its own key
Forge ==
    /\ tok = NotAToken
    /\ \E p \in ForeignPayloads : tok' = jwt_encode(p, OtherKey)
    /\ minted' = NotMinted
    /\ res' = NoCall
    /\ expired' = {}
    /\ UNCHANGED <<now, libExpInclusive, cvars>>

\* the client strips the signature of an issued token and sets alg to "none"
StripSignature ==
    /\ tok.wf
    /\ tok.sig.signed
    /\ tok' = [tok EXCEPT !.alg = "none", !.sig = NoSignature]
    /\ res' = NoCall
    /\ expired' = {}
    /\ UNCHANGED <<now, libExpInclusive, minted, cvars>>

\* the client presents a string that is no token
Garbage ==
    /\ tok # NotAToken
    /\ tok' = NotAToken
    /\ minted' = NotMinted
    /\ res' = NoCall
    /\ expired' = {}
    /\ UNCHANGED <<now, libExpInclusive, cvars>>

Next ==
    \/ Tick
    \/ Encode
    \/ Decode
    \/ Verify
    \/ Tamper
    \/ Forge
    \/ StripSignature
    \/ Garbage

Spec == Init /\ [][Next]_vars

\* ------------------------------------------------------ concurrent callers

\* the tokens concurrent callers present
TokensC ==
    {generate_auth_token(PyStr("u1"), BaseParams, "k1", 1, None_, 0),
     generate_auth_token(PyStr("u1"),
                         [BaseParams EXCEPT !.allowed_vmi_names = PyList(<<"vm-3">>)],
                         "k1", expires_in_default, None_, 0)}

ExpiresAtInputsC == {None_, PyInt(2)}

VmiNamesC == {"vm-1", "vm-3"}

InitC ==
    /\ now = 0
    /\ libExpInclusive \in BOOLEAN
    /\ tok = NotAToken
    /\ minted = NotMinted
    /\ res = NoCall
    /\ expired = {}
    /\ obj = BaseParams
    /\ th = [c \in Callers |-> Idle]
    /\ locals = [c \in Callers |-> NoLocals]

\* mutant: the locals are module-level variables
Slot_module_level(c) == 1

\* where a call keeps its local variables: in its own frame
Slot(c) == c

\* mutant: the list of the object is emptied while the payload is built
params_after_generate_popped(p) == [p EXCEPT !.allowed_vmi_names = PyList(<<>>)]

\* lines 47-51: the object generate_auth_token was handed, after it read its fields
params_after_generate(p) == p

InCall(f) == f.pc \notin {"idle", "done"}

\* th with caller c in frame f
Step(c, f) == [th EXCEPT ![c] = f]

\* the clock advances under concurrent callers
TickC ==
    /\ now < MaxTimeC
    /\ now' = now + 1
    /\ UNCHANGED <<libExpInclusive, svars, cvars>>

\* caller c calls generate_auth_token on the shared object
CallGenerate(c) ==
    /\ ~InCall(th[c])
    /\ \E key \in Keys, expires_in \in ExpiresInInputs, expires_at \in ExpiresAtInputsC :
        /\ th' = Step(c, Frame("gen_41", "encode", NotAToken, key, "", expires_in,
                              expires_at, Raise(""), NotAToken, 0))
        /\ locals' = [locals EXCEPT ![Slot(c)] = [NoLocals EXCEPT !.expires_at = expires_at]]
    /\ UNCHANGED <<now, libExpInclusive, svars, obj>>

\* lines 41-42
Gen41(c) ==
    /\ th[c].pc = "gen_41"
    /\ locals' = [locals EXCEPT ![Slot(c)].expires_at =
                    generate_expires_at(th[c].expires_in, locals[Slot(c)].expires_at, now)]
    /\ th' = Step(c, [th[c] EXCEPT !.pc = "gen_44", !.tRead = now])
    /\ UNCHANGED <<now, libExpInclusive, svars, obj>>

\* lines 44-52
Gen44(c) ==
    /\ th[c].pc = "gen_44"
    /\ th' = Step(c, [th[c] EXCEPT
                        !.pc = "done",
                        !.out = Return(NoParams, FALSE),
                        !.ret = generate_sign(PyStr("u1"), obj, th[c].key,
                                              locals[Slot(c)].expires_at)])
    /\ obj' = params_after_generate(obj)
    /\ locals' = [locals EXCEPT ![Slot(c)] = NoLocals]
    /\ UNCHANGED <<now, libExpInclusive, svars>>

\* caller c calls decode_auth_token
CallDecode(c) ==
    /\ ~InCall(th[c])
    /\ \E token \in TokensC, key \in Keys :
        th' = Step(c, Frame("dec_62", "decode", token, key, "", 0, Missing,
                            Raise(""), NotAToken, 0))
    /\ locals' = [locals EXCEPT ![Slot(c)] = NoLocals]
    /\ UNCHANGED <<now, libExpInclusive, svars, obj>>

\* caller c calls verify_auth_token, which at line 85 calls decode_auth_token
CallVerify(c) ==
    /\ ~InCall(th[c])
    /\ \E token \in TokensC, key \in Keys, vmi_name \in VmiNamesC :
        th' = Step(c, Frame("dec_62", "verify", token, key, vmi_name, 0, Missing,
                            Raise(""), NotAToken, 0))
    /\ locals' = [locals EXCEPT ![Slot(c)] = NoLocals]
    /\ UNCHANGED <<now, libExpInclusive, svars, obj>>

\* line 62: jwt.decode reads the clock; what it raises leaves both functions
Dec62(c) ==
    /\ th[c].pc = "dec_62"
    /\ LET r == jwt_decode(th[c].token, th[c].key, now, libExpInclusive)
       IN  IF r.ok
           THEN /\ locals' = [locals EXCEPT ![Slot(c)].dict = r.data]
                /\ th' = Step(c, [th[c] EXCEPT !.pc = "dec_63", !.tRead = now])
           ELSE /\ locals' = [locals EXCEPT ![Slot(c)] = NoLocals]
                /\ th' = Step(c, [th[c] EXCEPT !.pc = "done", !.tRead = now,
                                                !.out = Raise(r.err)])
    /\ UNCHANGED <<now, libExpInclusive, svars, obj>>

\* lines 63-68: decode_auth_token returns, to its caller or into verify's data
Dec63(c) ==
    /\ th[c].pc = "dec_63"
    /\ LET d == decode_build(locals[Slot(c)].dict)
       IN  IF th[c].op = "verify" /\ d.ok
           THEN /\ locals' = [locals EXCEPT ![Slot(c)] =
                                [NoLocals EXCEPT !.data = d.value]]
                /\ th' = Step(c, [th[c] EXCEPT !.pc = "ver_86"])
           ELSE /\ locals' = [locals EXCEPT ![Slot(c)] = NoLocals]
                /\ th' = Step(c, [th[c] EXCEPT !.pc = "done", !.out = d])
    /\ UNCHANGED <<now, libExpInclusive, svars, obj>>

\* lines 86-88
Ver86(c) ==
    /\ th[c].pc = "ver_86"
    /\ th' = Step(c, [th[c] EXCEPT
                        !.pc = "done",
                        !.out = verify_check(locals[Slot(c)].data, th[c].name)])
    /\ locals' = [locals EXCEPT ![Slot(c)] = NoLocals]
    /\ UNCHANGED <<now, libExpInclusive, svars, obj>>

NextC ==
    \/ TickC
    \/ \E c \in Callers :
        \/ CallGenerate(c)
        \/ Gen41(c)
        \/ Gen44(c)
        \/ CallDecode(c)
        \/ CallVerify(c)
        \/ Dec62(c)
        \/ Dec63(c)
        \/ Ver86(c)

SpecC == InitC /\ [][NextC]_vars

\* ------------------------------------------------------------------ claims

\* the error kinds of the specification, for the exceptions of the code
ErrorKind(err) ==
    CASE err = "ExpiredSignatureError" -> "TokenExpired"
      [] err \in {"InvalidSignatureError", "InvalidAlgorithmError"} -> "SignatureInvalid"
      [] err = "DecodeError" -> "TokenMalformed"
      [] OTHER -> "UnhandledFault"

\* tok is a token generate_auth_token returned, as it returned it
Genuine ==
    /\ minted.by = "generate_auth_token"
    /\ tok.wf
    /\ tok.alg = "HS256"
    /\ tok.sig = HS256(minted.key, "HS256", tok.payload)

\* tok is correctly signed under key and carries an expiry
SignedUnder(key) ==
    /\ tok.wf
    /\ tok.alg = "HS256"
    /\ tok.sig = HS256(key, "HS256", tok.payload)
    /\ tok.payload.exp.type = "number"

\* the payload of tok holds the lab_instance group and its four claims
CompletePayload ==
    /\ tok.payload.lab_instance.kind = "object"
    /\ tok.payload.lab_instance.lab_id # Missing
    /\ tok.payload.lab_instance.lab_instance_id # Missing
    /\ tok.payload.lab_instance.namespace_name # Missing
    /\ tok.payload.lab_instance.allowed_vmi_names # Missing

Elements(xs) == {xs[i] : i \in DOMAIN xs}

\* the subject id of a decoded value, when it has such a field
SubjectOf(value) ==
    IF "user_id" \in DOMAIN value THEN value["user_id"] ELSE Missing

C4_ExpiryPrecedence ==
    (res.op = "encode")
        => /\ (res.expires_at # None_) => tok.payload.exp = json_dumps(res.expires_at)
           /\ (res.expires_at = None_) => tok.payload.exp = JNumber(now + res.expires_in)

SecretKey == "k1"

C7_Malformed ==
    (res.op = "decode")
        => /\ ~tok.wf => ErrorKind(res.out.err) = "TokenMalformed"
           /\ (SignedUnder(res.key) /\ now < tok.payload.exp.n /\ ~CompletePayload)
                => ErrorKind(res.out.err) = "TokenMalformed"
           /\ \/ res.out.ok
              \/ ErrorKind(res.out.err)
                    \in {"TokenExpired", "SignatureInvalid", "TokenMalformed"}

\* C8: verify fails exactly when decode fails at that time, and with the same
\* error; it adds no failure of its own and masks none.
C8_FailurePropagation ==
    LET d == decode_auth_token(tok, res.key, now, libExpInclusive)
    IN  (res.op = "verify")
            => /\ res.out.ok <=> d.ok
               /\ ~d.ok => res.out.err = d.err

\* C9: generate_auth_token called with a required field absent (the subject
\* id, lab_id, lab_instance_id or namespace_name is None) fails with
\* InvalidClaims and returns no token.
C9_InvalidClaims ==
    (/\ res.op = "encode"
     /\ \/ minted.user_id = None_
        \/ minted.params.lab_id = None_
        \/ minted.params.lab_instance_id = None_
        \/ minted.params.namespace_name = None_)
        => /\ ~res.out.ok
           /\ res.out.err = "InvalidClaims"
           /\ ~tok.wf

\* what a finished call returns when run alone at the time it read the clock
AloneOutcome(f) ==
    CASE f.op = "decode" ->
            f.out = decode_auth_token(f.token, f.key, f.tRead, libExpInclusive)
      [] f.op = "verify" ->
            f.out = verify_auth_token(f.token, f.name, f.key, f.tRead, libExpInclusive)
      [] f.op = "encode" ->
            /\ f.out.ok
            /\ f.ret = generate_auth_token(PyStr("u1"), obj, f.key, f.expires_in,
                                           f.expires_at, f.tRead)
      [] OTHER -> FALSE

C10_Outcome ==
    /\ \A c \in Callers : th[c].pc = "done" => AloneOutcome(th[c])
    /\ \A c, d \in Callers :
        (/\ th[c].pc = "done" /\ th[d].pc = "done"
         /\ th[c].op = th[d].op /\ th[c].op \in {"decode", "verify"}
         /\ th[c].token = th[d].token /\ th[c].key = th[d].key
         /\ th[c].name = th[d].name /\ th[c].tRead = th[d].tRead)
            => th[c].out = th[d].out

C10_NoSharedWrite ==
    /\ obj' = obj
    /\ \A c, d \in Callers :
        (c # d /\ th'[c] # th[c]) => (th'[d] = th[d] /\ locals'[d] = locals[d])

\* C10: no call changes state another call sees, the object passed to
\* generate_auth_token included; under every interleaving of two callers each
\* finished call has the outcome of the same call run alone at the time it read
\* the clock, and two decode or verify calls with the same arguments and clock
\* time have the same outcome.
C10_Stateless == []C10_Outcome /\ [][C10_NoSharedWrite]_vars

\* caller 1 is still inside verify_auth_token, having read the clock, while
\* caller 2 has run a whole verify_auth_token on another token after that
C10_Witness ==
    /\ th[1].op = "verify" /\ th[1].pc = "ver_86"
    /\ th[2].op = "verify" /\ th[2].pc = "done"
    /\ th[2].tRead > th[1].tRead
    /\ th[2].out.ok /\ th[2].out.authorized
    /\ th[1].token # th[2].token
    /\ th[1].name = th[2].name
    /\ locals[1].data # th[2].out.value

====
